---- MODULE Spec2Model ----
(***************************************************************************)
(* Model of the hand-rolled path router, the theme context, the view      *)
(* switch, the shell's mobile menu, the contact form and the dev tests of  *)
(* src/src/App.jsx, and of CursorGlow (src/unnamed/part_000).              *)
(*                                                                         *)
(* A JavaScript string is a sequence of one-character strings, so that     *)
(* trim(), startsWith() and concatenation are computed character by        *)
(* character.                                                              *)
(*                                                                         *)
(* Specifications:                                                         *)
(*   Spec        the router driven with arbitrary navigate targets         *)
(*   SpecApp     the application driven through links, logo and the theme  *)
(*               button, for every content of localStorage at start        *)
(*   SpecContact the contact form: typing, submitting, the backend's       *)
(*               answer; SpecContactFair adds that requests settle         *)
(*   SpecDev     the application with runDevTests run after each load      *)
(*   SpecGlow    CursorGlow under mousemove events and animation frames    *)
(*   SpecNorm    parsePathFrom applied once and twice to each input        *)
(*   SpecResolve AppRouterSwitch and NavLink applied to each route         *)
(*                                                                         *)
(* React state: route, loading and theme are the values held by useState;  *)
(* a setter call changes them in the step of the handler that calls it.    *)
(* What a closure of an earlier render still sees (window.__router.route)  *)
(* is a variable of its own, brought up to date by PublishHandle.          *)
(***************************************************************************)
EXTENDS Naturals, Sequences, FiniteSets, TLC

VARIABLES
    \* pure-function harness (parsePathFrom, AppRouterSwitch)
    input,        \* the argument under test
    output,       \* the result of the first application
    again,        \* the result of the second application (parsePathFrom
                  \* of output; the active NavLink targets)
    stage,        \* "input" | "once" | "twice" | "links" | "off"
    \* browser
    hist,         \* session history: pathname+search of each entry
    idx,          \* index of the current entry; window.location is hist[idx]
    timers,       \* pending setTimeout(() => setLoading(false), 300) callbacks
    \* RouterProvider
    route,        \* useState route
    loading,      \* useState loading
    handleRoute,  \* what window.__router.route returns (closure of last effect)
    handleLoading,\* window.__router.loading (value copied by the last effect)
    \* Shell
    menuOpen,     \* useState menuOpen (mobile menu)
    \* Contact
    form,         \* useState form: [name, email, message]
    status,       \* useState status
    error,        \* useState error (submission error message)
    formErrors,   \* useState formErrors: field -> message, offending fields only
    inflight,     \* fetch calls to /api/contact not yet settled
    \* dev tests
    testsRan,     \* window.__angelk_tests_ran
    \* CursorGlow
    glowMounted,  \* the effect's listener is installed and elRef.current is set
    raf,          \* the effect's `raf`: 0, or the handle of the frame requested
    rafIssued,    \* calls of requestAnimationFrame so far
    frameQueue,   \* mouse events of the animation-frame callbacks pending
    glowAt,       \* the element's transform: <<>> or <<x, y>>
    \* ThemeProvider
    theme,        \* useState theme
    stored,       \* localStorage item "theme"
    attr,         \* data-theme attribute of document.documentElement
    toggled,      \* TRUE once toggleTheme has run
    \* bookkeeping
    lastOp        \* the operation that produced this state

fnVars == <<input, output, again, stage>>

browserVars == <<hist, idx, timers>>

routerVars == <<route, loading, handleRoute, handleLoading>>

shellVars == <<menuOpen>>

contactVars == <<form, status, error, formErrors, inflight>>

devVars == <<testsRan>>

glowVars == <<glowMounted, raf, rafIssued, frameQueue, glowAt>>

themeVars == <<theme, stored, attr, toggled>>

vars == <<input, output, again, stage, hist, idx, timers, route, loading,
          handleRoute, handleLoading, menuOpen, form, status, error,
          formErrors, inflight, testsRan, glowMounted, raf, rafIssued,
          frameQueue, glowAt, theme, stored, attr, toggled, lastOp>>

\* ------------------------------------------------------------------ bounds
\* Longest input string handed to parsePathFrom in the pure-function check.
MaxLen == 3
\* Longest suffix appended to a view prefix in the resolver check.
MaxSuffix == 2
\* Most entries the session history holds (navigate is disabled beyond it).
MaxHist == 3
\* Most delayed loader callbacks pending at once.
MaxTimers == 2

\* Contact requests outstanding at once, at most.
MaxInflight == 2

\* Animation frames CursorGlow requests, at most.
MaxFrames == 4

\* ------------------------------------------------------- JavaScript values
\* The characters inputs are built from: a separator, a letter, white space
\* and the query mark.
Chars == {"/", "a", " ", "?"}

\* String.prototype.trim removes these (the model's alphabet has the space).
WhiteSpace == {" "}

\* The value undefined (a missing argument); no string equals it.
Undefined == <<"undefined">>

\* The empty string.
Empty == <<>>

\* All strings over Chars of length n, and of length at most n.
StringsOfLen(n) == [1..n -> Chars]

StringsUpTo(n) == UNION {StringsOfLen(k) : k \in 0..n}

\* JavaScript truthiness of a string-or-undefined value: `path || "/"`.
Falsy(v) == v = Undefined \/ v = Empty

\* String.prototype.startsWith
StartsWith(s, pre) ==
    /\ Len(s) >= Len(pre)
    /\ SubSeq(s, 1, Len(pre)) = pre

RECURSIVE TrimStart(_)
TrimStart(s) ==
    IF s # <<>> /\ Head(s) \in WhiteSpace THEN TrimStart(Tail(s)) ELSE s

RECURSIVE TrimEnd(_)
TrimEnd(s) ==
    IF s # <<>> /\ s[Len(s)] \in WhiteSpace
    THEN TrimEnd(SubSeq(s, 1, Len(s) - 1))
    ELSE s

\* String.prototype.trim
Trim(s) == TrimEnd(TrimStart(s))

\* ------------------------------------------------------------ parsePathFrom
\* A plausible slip: the default is applied but the value is not trimmed.
parsePathFromNoTrim(path) ==
    LET p == IF Falsy(path) THEN <<"/">> ELSE path
    IN  IF StartsWith(p, <<"/">>) THEN p ELSE <<"/">> \o p

\* A plausible slip: startsWith is tested on the untrimmed value and only the
\* slash branch trims.
parsePathFromTrimOneBranch(path) ==
    LET p == IF Falsy(path) THEN <<"/">> ELSE path
    IN  IF StartsWith(p, <<"/">>) THEN Trim(p) ELSE <<"/">> \o p

\* A plausible slip: the trimmed value is returned without the leading slash
\* being added.
parsePathFromNoSlash(path) == Trim(IF Falsy(path) THEN <<"/">> ELSE path)

\* const p = (path || "/").trim(); return p.startsWith("/") ? p : "/" + p;
parsePathFrom(path) ==
    LET p == Trim(IF Falsy(path) THEN <<"/">> ELSE path)
    IN  IF StartsWith(p, <<"/">>) THEN p ELSE <<"/">> \o p

\* ---------------------------------------------------------------- browser
\* Position of the first occurrence of c in s, 0 when there is none.
IndexOf(s, c) ==
    IF \E i \in 1..Len(s) : s[i] = c
    THEN CHOOSE i \in 1..Len(s) : s[i] = c /\ \A j \in 1..(i - 1) : s[j] # c
    ELSE 0

\* pushState resolves its URL against the document: a URL that starts with
\* two slashes names another host (or none), and pushState throws
\* SecurityError for it.
SameOrigin(url) == ~StartsWith(url, <<"/", "/">>)

\* window.location after the browser has parsed the absolute path `url`:
\* pathname is the part before the first "?", search is "" for a missing or
\* empty query and "?" + query otherwise.  (NavTargets holds no character
\* the URL parser rewrites, such as an inner space or ".." or "#".)
LocationOf(url) ==
    LET q     == IndexOf(url, "?")
        path  == IF q = 0 THEN url ELSE SubSeq(url, 1, q - 1)
        query == IF q = 0 THEN <<>> ELSE SubSeq(url, q + 1, Len(url))
    IN  [pathname |-> path,
         search   |-> IF query = <<>> THEN <<>> ELSE <<"?">> \o query]

\* window.location
Location == hist[idx]

\* window.location.pathname + window.location.search
PathAndSearch(loc) == loc.pathname \o loc.search

\* ------------------------------------------------------------ RouterProvider
\* A plausible slip: the query is dropped when the location is read back.
getCurrentPathNoSearch(loc) == parsePathFrom(loc.pathname)

\* getCurrentPath, for the location `loc` the window has when it is called.
getCurrentPath(loc) == parsePathFrom(PathAndSearch(loc))

\* Strings used as navigation targets and start locations.
About == <<"a", "b", "o", "u", "t">>

SlashAbout == <<"/">> \o About

Root == <<"/">>

TermsQuery == <<"/", "t", "e", "r", "m", "s", "?", "x", "=", "1">>

\* Targets handed to navigate: a missing argument, a bare name, a canonical
\* path, a padded path, a path with a query, a path with an empty query and
\* a path that starts with two slashes.
NavTargets ==
    { Undefined, About, SlashAbout, <<" ">> \o SlashAbout \o <<" ">>,
      TermsQuery, SlashAbout \o <<"?">>, <<"/">> \o SlashAbout }

\* Locations the page can be opened at.
StartUrls == { Root, TermsQuery }

\* The record kept in lastOp.
Op(name, showLoader) == [op |-> name, showLoader |-> showLoader]

\* A plausible slip: the guard is dropped and every call pushes.
ShouldNavigateAlways(path, current) == TRUE

\* if (path !== current)
ShouldNavigate(path, current) == path # current

\* window.history.pushState({}, "", url): the entries after the current one
\* are dropped and the new entry becomes the current one.
PushState(url) ==
    /\ hist' = SubSeq(hist, 1, idx) \o <<LocationOf(url)>>
    /\ idx' = idx + 1

\* A plausible slip: the loader is shown and its clear scheduled whether or
\* not options.showLoader is set.
navigateAlwaysLoader(to, showLoader) ==
    LET path    == parsePathFrom(to)
        current == PathAndSearch(Location)
    IN  IF ShouldNavigate(path, current)
        THEN IF SameOrigin(path)
             THEN /\ idx < MaxHist
                  /\ timers < MaxTimers
                  /\ loading' = TRUE
                  /\ PushState(path)
                  /\ route' = path
                  /\ timers' = timers + 1
                  /\ lastOp' = Op("push", showLoader)
                  /\ UNCHANGED <<handleRoute, handleLoading, fnVars, devVars, glowVars, shellVars, contactVars, themeVars>>
             ELSE /\ loading' = TRUE
                  /\ lastOp' = Op("throw", showLoader)
                  /\ UNCHANGED <<hist, idx, timers, route, handleRoute, handleLoading,
                                 fnVars, devVars, glowVars, shellVars, contactVars, themeVars>>
        ELSE /\ lastOp' = Op("noop", showLoader)
             /\ UNCHANGED <<browserVars, routerVars, fnVars, devVars, glowVars, shellVars, contactVars, themeVars>>

\* navigate(to, options) with options.showLoader = showLoader.  pushState
\* throws after setLoading(true) when the URL is not same-origin, and the rest
\* of the handler is skipped.
navigate(to, showLoader) ==
    LET path    == parsePathFrom(to)
        current == PathAndSearch(Location)
    IN  IF ShouldNavigate(path, current)
        THEN IF SameOrigin(path)
             THEN /\ idx < MaxHist
                  /\ showLoader => timers < MaxTimers
                  /\ loading' = (showLoader \/ loading)
                  /\ PushState(path)
                  /\ route' = path
                  /\ timers' = IF showLoader THEN timers + 1 ELSE timers
                  /\ lastOp' = Op("push", showLoader)
                  /\ UNCHANGED <<handleRoute, handleLoading, fnVars, devVars, glowVars, shellVars, contactVars, themeVars>>
             ELSE /\ loading' = (showLoader \/ loading)
                  /\ lastOp' = Op("throw", showLoader)
                  /\ UNCHANGED <<hist, idx, timers, route, handleRoute, handleLoading,
                                 fnVars, devVars, glowVars, shellVars, contactVars, themeVars>>
        ELSE /\ lastOp' = Op("noop", showLoader)
             /\ UNCHANGED <<browserVars, routerVars, fnVars, devVars, glowVars, shellVars, contactVars, themeVars>>

\* A call of navigate from a link, the logo or window.__router.
Navigate == \E to \in NavTargets, showLoader \in BOOLEAN : navigate(to, showLoader)

\* const onPop = () => setRoute(getCurrentPath()), run by the popstate event
\* the browser fires after it has moved to the entry at index i.
onPop(i) ==
    /\ idx' = i
    /\ route' = getCurrentPath(hist[i])
    /\ lastOp' = Op("pop", FALSE)
    /\ UNCHANGED <<hist, timers, loading, handleRoute, handleLoading, fnVars, devVars, glowVars, shellVars, contactVars, themeVars>>

\* The browser's back button.
Back == idx > 1 /\ onPop(idx - 1)

\* The browser's forward button.
Forward == idx < Len(hist) /\ onPop(idx + 1)

\* A plausible repair: a callback clears the loader only when no later
\* navigation's callback is still pending.
ClearLoadingLastOnly ==
    /\ timers > 0
    /\ timers' = timers - 1
    /\ loading' = IF timers = 1 THEN FALSE ELSE loading
    /\ lastOp' = Op("timer", FALSE)
    /\ UNCHANGED <<hist, idx, route, handleRoute, handleLoading, fnVars, devVars, glowVars, shellVars, contactVars, themeVars>>

\* setTimeout(() => setLoading(false), 300) fires.
ClearLoading ==
    /\ timers > 0
    /\ timers' = timers - 1
    /\ loading' = FALSE
    /\ lastOp' = Op("timer", FALSE)
    /\ UNCHANGED <<hist, idx, route, handleRoute, handleLoading, fnVars, devVars, glowVars, shellVars, contactVars, themeVars>>

\* A plausible slip: the effect's dependency list is empty, so it runs on
\* mount only.
ShellEffectOnMountOnly == menuOpen' = menuOpen

\* Shell: useEffect(() => { setMenuOpen(false); }, [navigate]).  The context
\* value, and with it `navigate`, is replaced exactly when route or loading
\* changed, so the effect runs in every commit that follows such a change.
ShellEffect == menuOpen' = FALSE

\* React commits the render that follows a change of route or loading: the
\* effect with dependencies [route, loading] replaces window.__router (its
\* getter returns the route of that render), and Shell's effect runs.
PublishHandle ==
    /\ handleRoute # route \/ handleLoading # loading
    /\ handleRoute' = route
    /\ handleLoading' = loading
    /\ ShellEffect
    /\ lastOp' = Op(IF menuOpen THEN "effect-menu" ELSE "effect", FALSE)
    /\ UNCHANGED <<browserVars, route, loading, fnVars, devVars, glowVars, contactVars, themeVars>>

\* The mobile menu button: onClick={() => setMenuOpen(!menuOpen)}.
ToggleMenu ==
    /\ menuOpen' = ~menuOpen
    /\ lastOp' = Op("menu", FALSE)
    /\ UNCHANGED <<browserVars, routerVars, fnVars, devVars, glowVars, contactVars, themeVars>>

\* ------------------------------------------------------------- ThemeProvider
\* localStorage holds no item "theme" (<<>>) or one item with a string value.
NoItem == <<>>

Item(v) == <<v>>

\* What localStorage may hold when the page is opened: nothing, the empty
\* string, a theme written earlier, or a string some other code wrote.
StoredAtStart == { NoItem, Item(""), Item("dark"), Item("light"), Item("blue") }

\* localStorage.getItem('theme') || 'dark'
SavedTheme(st) == IF st = NoItem \/ st[1] = "" THEN "dark" ELSE st[1]

\* A plausible slip: the new theme is not written to localStorage.
toggleThemeNoPersist ==
    LET newTheme == IF theme = "dark" THEN "light" ELSE "dark"
    IN  /\ theme' = newTheme
        /\ attr' = newTheme
        /\ toggled' = TRUE
        /\ lastOp' = Op("toggle", FALSE)
        /\ UNCHANGED <<stored, browserVars, routerVars, fnVars, devVars, glowVars, shellVars, contactVars>>

\* A plausible slip: the attribute is set from the old theme.
toggleThemeStaleAttr ==
    LET newTheme == IF theme = "dark" THEN "light" ELSE "dark"
    IN  /\ theme' = newTheme
        /\ attr' = theme
        /\ stored' = Item(newTheme)
        /\ toggled' = TRUE
        /\ lastOp' = Op("toggle", FALSE)
        /\ UNCHANGED <<browserVars, routerVars, fnVars, devVars, glowVars, shellVars, contactVars>>

\* A plausible slip: the theme switch also resets the page loader.
toggleThemeClearsLoader ==
    LET newTheme == IF theme = "dark" THEN "light" ELSE "dark"
    IN  /\ theme' = newTheme
        /\ attr' = newTheme
        /\ stored' = Item(newTheme)
        /\ toggled' = TRUE
        /\ loading' = FALSE
        /\ lastOp' = Op("toggle", FALSE)
        /\ UNCHANGED <<browserVars, route, handleRoute, handleLoading, fnVars, devVars, glowVars, shellVars, contactVars>>

\* toggleTheme, called from the header button's click handler; React
\* re-renders before the next click, so `theme` is the committed state.
toggleTheme ==
    LET newTheme == IF theme = "dark" THEN "light" ELSE "dark"
    IN  /\ theme' = newTheme
        /\ attr' = newTheme
        /\ stored' = Item(newTheme)
        /\ toggled' = TRUE
        /\ lastOp' = Op("toggle", FALSE)
        /\ UNCHANGED <<browserVars, routerVars, fnVars, devVars, glowVars, shellVars, contactVars>>

\* The page is loaded again: the providers are constructed anew
\* (useState('dark'), useState(() => getCurrentPath()), useState(false)),
\* the mount effects run, and the old page's timers are gone.  localStorage
\* and the session history survive.
Reload ==
    /\ theme' = SavedTheme(stored)
    /\ attr' = SavedTheme(stored)
    /\ route' = getCurrentPath(Location)
    /\ handleRoute' = getCurrentPath(Location)
    /\ loading' = FALSE
    /\ handleLoading' = FALSE
    /\ menuOpen' = FALSE
    /\ timers' = 0
    /\ testsRan' = FALSE
    /\ lastOp' = Op("reload", FALSE)
    /\ UNCHANGED <<hist, idx, stored, toggled, fnVars, glowVars, contactVars>>

\* ------------------------------------------------------------ specification
\* The pure-function harness is switched off while the application runs.
HarnessOff == input = Empty /\ output = Empty /\ again = Empty /\ stage = "off"

\* RouterProvider after its first render and mount effects, with the page
\* opened at one of the locations in `starts`.
RouterInit(starts) ==
    /\ \E u \in starts : hist = <<LocationOf(u)>>
    /\ idx = 1
    /\ timers = 0
    /\ route = getCurrentPath(hist[1])
    /\ loading = FALSE
    /\ handleRoute = route
    /\ handleLoading = loading
    /\ menuOpen = FALSE
    /\ lastOp = Op("init", FALSE)

\* ThemeProvider after its mount effect, with localStorage holding one of
\* `items`.
ThemeInit(items) ==
    /\ stored \in items
    /\ theme = SavedTheme(stored)
    /\ attr = theme
    /\ toggled = FALSE

\* Contact after its first render: useState('idle'), useState(''),
\* useState({ name: '', email: '', message: '' }), useState({}).
ContactInit ==
    /\ form = [name |-> Empty, email |-> Empty, message |-> Empty]
    /\ status = "idle"
    /\ error = ""
    /\ formErrors = <<>>
    /\ inflight = 0

\* The dev tests have not run since the page was loaded.
DevInit == testsRan = FALSE

\* CursorGlow after its mount effect: let raf = 0, nothing requested.
GlowInit ==
    /\ glowMounted = TRUE
    /\ raf = 0
    /\ rafIssued = 0
    /\ frameQueue = <<>>
    /\ glowAt = <<>>

\* The router driven with arbitrary targets (links, logo, window.__router);
\* nobody touches the theme button, the menu button or the contact form.
Init ==
    /\ HarnessOff /\ RouterInit(StartUrls) /\ ThemeInit({NoItem}) /\ ContactInit
    /\ DevInit /\ GlowInit

Next ==
    \/ Navigate
    \/ Back
    \/ Forward
    \/ ClearLoading
    \/ PublishHandle
    \/ Reload

Spec == Init /\ [][Next]_vars

\* Two of the header's NavLink targets.
LinkTargets == { Root, SlashAbout }

\* A click on a NavLink: navigate(to, { showLoader: true }).
ClickLink == \E to \in LinkTargets : navigate(to, TRUE)

\* A click on the header logo: navigate('/').
ClickLogo == navigate(Root, FALSE)

\* The application driven through its user interface, theme button included,
\* for every content of localStorage at start.
InitApp ==
    /\ HarnessOff /\ RouterInit(StartUrls) /\ ThemeInit(StoredAtStart) /\ ContactInit
    /\ DevInit /\ GlowInit

NextApp ==
    \/ ClickLink
    \/ ClickLogo
    \/ Back
    \/ Forward
    \/ ClearLoading
    \/ PublishHandle
    \/ ToggleMenu
    \/ toggleTheme
    \/ Reload

SpecApp == InitApp /\ [][NextApp]_vars

\* The path prefixes AppRouterSwitch tests, in its order.
AboutPrefix == <<"/", "a", "b", "o", "u", "t">>

\* A plausible slip: the brands page is moved below the about page.
BrandsUnderAbout == AboutPrefix \o <<"/", "b", "r", "a", "n", "d", "s">>

BrandsPrefix == <<"/", "b", "r", "a", "n", "d", "s">>

MediaPrefix == <<"/", "m", "e", "d", "i", "a">>

ContactPrefix == <<"/", "c", "o", "n", "t", "a", "c", "t">>

PrivacyPrefix == <<"/", "p", "r", "i", "v", "a", "c", "y">>

TermsPrefix == <<"/", "t", "e", "r", "m", "s">>

\* --------------------------------------------------------------------- Contact
Fields == { "name", "email", "message" }

\* What the user may have typed: nothing, a blank, a letter; for the e-mail
\* field (whose value the browser strips of surrounding blanks) nothing, and
\* addresses without "@", without a dot after it, and with both.
FieldValues(fld) ==
    IF fld = "email"
    THEN { Empty, <<"a">>, <<"a", "@", "b">>, <<"a", "@", "b", ".", "c">> }
    ELSE { Empty, <<" ">>, <<"x">> }

\* { name: '', email: '', message: '' }
ClearedForm == [name |-> Empty, email |-> Empty, message |-> Empty]

\* /\S+@\S+\.\S+/.test(s): somewhere in s, a non-blank, "@", one or more
\* non-blanks, ".", a non-blank.
MatchesEmailPattern(s) ==
    \E i \in 2..Len(s), k \in 1..Len(s) :
        /\ s[i] = "@"
        /\ s[i - 1] \notin WhiteSpace
        /\ k >= i + 2
        /\ k < Len(s)
        /\ s[k] = "."
        /\ \A j \in (i + 1)..(k - 1) : s[j] \notin WhiteSpace
        /\ s[k + 1] \notin WhiteSpace

\* The errors object validateForm builds for the form f.
validateErrors(f) ==
    LET bad == { fld \in Fields :
                   \/ Trim(f[fld]) = Empty
                   \/ fld = "email" /\ ~MatchesEmailPattern(f.email) }
    IN  [fld \in bad |->
            IF Trim(f[fld]) = Empty
            THEN IF fld = "name" THEN "Name is required"
                 ELSE IF fld = "email" THEN "Email is required"
                 ELSE "Message is required"
            ELSE "Email is invalid"]

\* The browser's check of an <input type="email">: one "@" with a
\* non-empty local part before it and dot-separated non-empty labels after
\* it, no blanks anywhere.
ValidEmailAddress(s) ==
    \E i \in 2..(Len(s) - 1) :
        /\ s[i] = "@"
        /\ \A j \in 1..Len(s) : j # i => s[j] \notin (WhiteSpace \cup {"@"})
        /\ s[i + 1] # "."
        /\ s[Len(s)] # "."
        /\ \A j \in (i + 1)..(Len(s) - 1) : ~(s[j] = "." /\ s[j + 1] = ".")

\* The form's constraint validation, run by the browser before it fires the
\* submit event: the three controls are `required`, the e-mail control is
\* type="email", and the form has no noValidate.
SatisfiesConstraints(f) ==
    /\ \A fld \in Fields : f[fld] # Empty
    /\ ValidEmailAddress(f.email)

\* A plausible slip: the submit button is never disabled.
SubmitNeverDisabled == FALSE

\* <Button type="submit" disabled={status === 'submitting'}>
SubmitDisabled == status = "submitting"

\* The responses the backend may give, and a request that fails before any
\* response arrives (fetch rejects).
Outcomes ==
    { [settled |-> "response", code |-> c] : c \in {200, 204, 404, 500} }
        \cup { [settled |-> "rejected", code |-> 0] }

\* res.ok
Ok(r) == r.settled = "response" /\ r.code >= 200 /\ r.code <= 299

GenericError == "Could not submit to backend. Check API_BASE and /api/contact endpoint."

ContactUnchanged == UNCHANGED <<browserVars, routerVars, shellVars, themeVars, fnVars, devVars, glowVars>>

\* onChange of one of the three controls: setForm({...form, [fld]: value}).
Type ==
    \E fld \in Fields : \E v \in FieldValues(fld) :
        /\ form' = [form EXCEPT ![fld] = v]
        /\ lastOp' = Op("type", FALSE)
        /\ UNCHANGED <<status, error, formErrors, inflight>>
        /\ ContactUnchanged

\* A plausible slip: setError('') is left out.
onSubmitKeepsError ==
    /\ formErrors' = validateErrors(form)
    /\ IF validateErrors(form) = <<>>
       THEN /\ inflight < MaxInflight
            /\ status' = "submitting"
            /\ inflight' = inflight + 1
            /\ lastOp' = Op("sent", FALSE)
            /\ UNCHANGED error
       ELSE /\ lastOp' = Op("invalid", FALSE)
            /\ UNCHANGED <<status, error, inflight>>
    /\ UNCHANGED form

\* onSubmit up to its await: validateForm, and if it found nothing,
\* setStatus('submitting'), setError('') and the fetch call.
onSubmit ==
    /\ formErrors' = validateErrors(form)
    /\ IF validateErrors(form) = <<>>
       THEN /\ inflight < MaxInflight
            /\ status' = "submitting"
            /\ error' = ""
            /\ inflight' = inflight + 1
            /\ lastOp' = Op("sent", FALSE)
       ELSE /\ lastOp' = Op("invalid", FALSE)
            /\ UNCHANGED <<status, error, inflight>>
    /\ UNCHANGED form

\* The user submits the form (a click on Send, or Enter in a field): nothing
\* happens while the button is disabled; otherwise the browser validates the
\* controls and fires the submit event only if they are all valid.
ClickSend ==
    /\ ~SubmitDisabled
    /\ IF SatisfiesConstraints(form)
       THEN onSubmit
       ELSE /\ lastOp' = Op("blocked", FALSE)
            /\ UNCHANGED contactVars
    /\ ContactUnchanged

\* A plausible slip: the form is not cleared after a successful submission.
RespondKeepsFields(r) ==
    /\ inflight > 0
    /\ inflight' = inflight - 1
    /\ IF Ok(r)
       THEN /\ status' = "success"
            /\ lastOp' = Op("response-ok", FALSE)
            /\ UNCHANGED <<form, error>>
       ELSE /\ error' = GenericError
            /\ status' = "error"
            /\ lastOp' = Op("response-failed", FALSE)
            /\ UNCHANGED form
    /\ UNCHANGED formErrors
    /\ ContactUnchanged

\* A plausible slip: the form is cleared whatever the outcome.
RespondAlwaysClears(r) ==
    /\ inflight > 0
    /\ inflight' = inflight - 1
    /\ form' = ClearedForm
    /\ IF Ok(r)
       THEN /\ status' = "success"
            /\ lastOp' = Op("response-ok", FALSE)
            /\ UNCHANGED error
       ELSE /\ error' = GenericError
            /\ status' = "error"
            /\ lastOp' = Op("response-failed", FALSE)
    /\ UNCHANGED formErrors
    /\ ContactUnchanged

\* A plausible slip: no catch, so a failed request changes nothing.
RespondNoCatch(r) ==
    /\ inflight > 0
    /\ inflight' = inflight - 1
    /\ IF Ok(r)
       THEN /\ status' = "success"
            /\ form' = ClearedForm
            /\ lastOp' = Op("response-ok", FALSE)
            /\ UNCHANGED error
       ELSE /\ lastOp' = Op("response-failed", FALSE)
            /\ UNCHANGED <<form, status, error>>
    /\ UNCHANGED formErrors
    /\ ContactUnchanged

\* onSubmit after its await: the fetch settled with outcome r.  A response
\* that is not ok throws into the same catch as a rejected fetch.
Respond(r) ==
    /\ inflight > 0
    /\ inflight' = inflight - 1
    /\ IF Ok(r)
       THEN /\ status' = "success"
            /\ form' = ClearedForm
            /\ lastOp' = Op("response-ok", FALSE)
            /\ UNCHANGED error
       ELSE /\ error' = GenericError
            /\ status' = "error"
            /\ lastOp' = Op("response-failed", FALSE)
            /\ UNCHANGED form
    /\ UNCHANGED formErrors
    /\ ContactUnchanged

\* An outstanding request settles.
Settle == \E r \in Outcomes : Respond(r)

\* The page opened at /contact; the user works the form and the backend
\* answers.
InitContact ==
    /\ HarnessOff /\ RouterInit({ContactPrefix}) /\ ThemeInit({NoItem}) /\ ContactInit
    /\ DevInit /\ GlowInit

NextContact ==
    \/ Type
    \/ ClickSend
    \/ Settle

SpecContact == InitContact /\ [][NextContact]_vars

\* The same, with every request settling sooner or later.
SpecContactFair == SpecContact /\ WF_vars(Settle)

\* ------------------------------------------------------------------ dev tests
\* The arguments of the navigate calls of runDevTests, in order.
DevTestTargets ==
    << <<"/", "_", "_", "t", "e", "s", "t", "_", "_">>, About, SlashAbout,
       PrivacyPrefix, TermsPrefix >>

\* The history and the route state after window.__router.navigate(to),
\* without showLoader, called with the history and route state in b.
NavigateFrom(b, to) ==
    LET path    == parsePathFrom(to)
        current == PathAndSearch(b.hist[b.idx])
    IN  IF ShouldNavigate(path, current)
        THEN [hist  |-> SubSeq(b.hist, 1, b.idx) \o <<LocationOf(path)>>,
              idx   |-> b.idx + 1,
              route |-> path]
        ELSE b

RECURSIVE NavigateAll(_, _)
\* The calls of navigate made one after the other.
NavigateAll(b, targets) ==
    IF targets = <<>> THEN b
    ELSE NavigateAll(NavigateFrom(b, Head(targets)), Tail(targets))

\* run() of runDevTests once window.__router is there, in one task: prev is
\* taken from location.pathname, the navigate calls follow (console.assert
\* does not throw), then replaceState(prev) and a popstate event, whose
\* handler sets the route from the location.
RunDevTests ==
    /\ ~testsRan
    /\ idx <= MaxHist
    /\ LET prev     == Location.pathname
           b        == NavigateAll([hist |-> hist, idx |-> idx, route |-> route],
                                   DevTestTargets)
           restored == [b.hist EXCEPT ![b.idx] = LocationOf(prev)]
       IN  /\ hist' = restored
           /\ idx' = b.idx
           /\ route' = getCurrentPath(restored[b.idx])
    /\ testsRan' = TRUE
    /\ lastOp' = Op("devtest", FALSE)
    /\ UNCHANGED <<timers, loading, handleRoute, handleLoading, fnVars, glowVars,
                   shellVars, contactVars, themeVars>>

\* The page with its dev tests, which run once after every load, and the
\* user at the links, the logo and the browser's buttons.
InitDev == Init

NextDev ==
    \/ RunDevTests
    \/ ClickLink
    \/ ClickLogo
    \/ Back
    \/ Forward
    \/ ClearLoading
    \/ PublishHandle
    \/ Reload

SpecDev == InitDev /\ [][NextDev]_vars

\* ----------------------------------------------------------------- CursorGlow
\* Mouse events, by their clientX and clientY.
MouseEvents ==
    { [clientX |-> 12, clientY |-> 12], [clientX |-> 40, clientY |-> 30],
      [clientX |-> 41, clientY |-> 30] }

\* A plausible slip: no `if (raf) return`.
onMoveUnthrottled(e) ==
    /\ glowMounted
    /\ rafIssued < MaxFrames
    /\ raf' = rafIssued + 1
    /\ rafIssued' = rafIssued + 1
    /\ frameQueue' = Append(frameQueue, e)
    /\ lastOp' = Op("move", FALSE)
    /\ UNCHANGED <<glowMounted, glowAt>>

\* onMove(e): nothing while raf is set; otherwise a callback that holds e is
\* requested and raf becomes its handle (handles are positive).
onMove(e) ==
    /\ glowMounted
    /\ IF raf # 0
       THEN /\ lastOp' = Op("move-skipped", FALSE)
            /\ UNCHANGED <<raf, rafIssued, frameQueue>>
       ELSE /\ rafIssued < MaxFrames
            /\ raf' = rafIssued + 1
            /\ rafIssued' = rafIssued + 1
            /\ frameQueue' = Append(frameQueue, e)
            /\ lastOp' = Op("move", FALSE)
    /\ UNCHANGED <<glowMounted, glowAt>>

GlowUnchanged ==
    UNCHANGED <<browserVars, routerVars, shellVars, contactVars, devVars,
                themeVars, fnVars>>

\* A mousemove event reaches the listener.
MouseMove == (\E e \in MouseEvents : onMove(e)) /\ GlowUnchanged

\* The browser runs the oldest pending animation-frame callback: the
\* element, if still there, is moved to the event's position less 12, and
\* raf is reset.
AnimationFrame ==
    /\ frameQueue # <<>>
    /\ LET e == Head(frameQueue)
       IN  glowAt' = IF glowMounted
                     THEN <<e.clientX - 12, e.clientY - 12>>
                     ELSE glowAt
    /\ raf' = 0
    /\ frameQueue' = Tail(frameQueue)
    /\ lastOp' = Op("frame", FALSE)
    /\ UNCHANGED <<glowMounted, rafIssued>>
    /\ GlowUnchanged

\* The component goes away: the effect's cleanup removes the listener (a
\* pending callback is not cancelled) and React clears elRef.current.
GlowUnmount ==
    /\ glowMounted
    /\ glowMounted' = FALSE
    /\ lastOp' = Op("unmount", FALSE)
    /\ UNCHANGED <<raf, rafIssued, frameQueue, glowAt>>
    /\ GlowUnchanged

InitGlow == Init

NextGlow ==
    \/ MouseMove
    \/ AnimationFrame
    \/ GlowUnmount

SpecGlow == InitGlow /\ [][NextGlow]_vars

\* ----------------------------------------------------------- AppRouterSwitch
\* A plausible slip: the route is compared for equality, not by prefix.
AppRouterSwitchExact(r) ==
    IF r = AboutPrefix THEN "About"
    ELSE IF r = BrandsPrefix THEN "Brands"
    ELSE IF r = MediaPrefix THEN "Media"
    ELSE IF r = ContactPrefix THEN "Contact"
    ELSE IF r = PrivacyPrefix THEN "Privacy"
    ELSE IF r = TermsPrefix THEN "Terms"
    ELSE "Home"

\* The view AppRouterSwitch renders for the route r.
AppRouterSwitch(r) ==
    IF StartsWith(r, AboutPrefix) THEN "About"
    ELSE IF StartsWith(r, BrandsPrefix) THEN "Brands"
    ELSE IF StartsWith(r, MediaPrefix) THEN "Media"
    ELSE IF StartsWith(r, ContactPrefix) THEN "Contact"
    ELSE IF StartsWith(r, PrivacyPrefix) THEN "Privacy"
    ELSE IF StartsWith(r, TermsPrefix) THEN "Terms"
    ELSE "Home"

\* ------------------------------------------------- pure-function harnesses
\* The application part of the state, at rest while a function is exercised.
AppAtRest ==
    /\ RouterInit({Root}) /\ ThemeInit({NoItem}) /\ ContactInit
    /\ DevInit /\ GlowInit

AppUnchanged ==
    UNCHANGED <<browserVars, routerVars, shellVars, contactVars, devVars,
                glowVars, themeVars, lastOp>>

\* Arguments of parsePathFrom: undefined, every string over Chars up to
\* MaxLen, and the strings of the dev tests.
NormInputs ==
    StringsUpTo(MaxLen)
        \cup { Undefined, About, <<"/">> \o <<"p", "r", "i", "v", "a", "c", "y">>,
               TermsQuery }

InitNorm ==
    /\ input \in NormInputs
    /\ output = Empty /\ again = Empty /\ stage = "input"
    /\ AppAtRest

\* output := parsePathFrom(input)
Normalize ==
    /\ stage = "input"
    /\ output' = parsePathFrom(input)
    /\ stage' = "once"
    /\ UNCHANGED <<input, again>>
    /\ AppUnchanged

\* again := parsePathFrom(output)
Renormalize ==
    /\ stage = "once"
    /\ again' = parsePathFrom(output)
    /\ stage' = "twice"
    /\ UNCHANGED <<input, output>>
    /\ AppUnchanged

NextNorm == Normalize \/ Renormalize

SpecNorm == InitNorm /\ [][NextNorm]_vars

\* Suffixes a route may carry behind a view prefix.
SuffixChars == {"/", "x", "?"}

Suffixes == UNION {[1..k -> SuffixChars] : k \in 0..MaxSuffix}

Prefixes ==
    { AboutPrefix, BrandsPrefix, MediaPrefix, ContactPrefix, PrivacyPrefix,
      TermsPrefix }

\* Routes handed to AppRouterSwitch: a prefix with a suffix, a prefix cut
\* short by one character, two prefixes in a row, and routes of no view.
ResolveInputs ==
    { p \o x : p \in Prefixes, x \in Suffixes }
        \cup { SubSeq(p, 1, Len(p) - 1) : p \in Prefixes }
        \cup { p \o q : p \in Prefixes, q \in Prefixes }
        \cup { Root, <<"/", "u", "n", "k", "n", "o", "w", "n">>,
               BrandsPrefix \o <<"/", "a", "n", "y", "t", "h", "i", "n", "g">> }

InitResolve ==
    /\ input \in ResolveInputs
    /\ output = Empty /\ again = Empty /\ stage = "input"
    /\ AppAtRest

\* output := the view rendered for the route `input`
Resolve ==
    /\ stage = "input"
    /\ output' = AppRouterSwitch(input)
    /\ stage' = "once"
    /\ UNCHANGED <<input, again>>
    /\ AppUnchanged

\* The `to` of the NavLinks the shell and the pages render.
NavLinkTargets ==
    << Root, AboutPrefix, BrandsPrefix, MediaPrefix, ContactPrefix,
       PrivacyPrefix, TermsPrefix >>

\* A plausible slip: the home link is not exempted from prefix matching.
NavLinkActiveNoHomeGuard(r, to) == r = to \/ StartsWith(r, to)

\* NavLink: const active = route === to || (to !== '/' && route.startsWith(to))
NavLinkActive(r, to) == r = to \/ (to # Root /\ StartsWith(r, to))

\* again := the targets of the links rendered active for the route `input`
RenderLinks ==
    /\ stage = "once"
    /\ again' = LET IsActive(to) == NavLinkActive(input, to)
                IN  SelectSeq(NavLinkTargets, IsActive)
    /\ stage' = "links"
    /\ UNCHANGED <<input, output>>
    /\ AppUnchanged

NextResolve == Resolve \/ RenderLinks

SpecResolve == InitResolve /\ [][NextResolve]_vars

\* ==================================================================== claims

\* C1: navigating to the current route is a no-op.  Every navigate(to,
\* options) step whose normalized target equals pathname+search of the
\* current location leaves the history, the current entry, route, loading and
\* the pending loader callbacks unchanged, for showLoader true and false.
C1_NavigateToCurrentIsNoOp ==
    [][\A to \in NavTargets :
          parsePathFrom(to) = PathAndSearch(Location)
              => \A showLoader \in BOOLEAN :
                    navigate(to, showLoader)
                        => UNCHANGED <<hist, idx, route, loading, timers>>]_vars

\* C1 witness: with a loader pending from an earlier navigation, a call with
\* showLoader to the location the page is already at has returned.
C1_Witness ==
    /\ lastOp = Op("noop", TRUE)
    /\ PathAndSearch(Location) = SlashAbout
    /\ timers = 1

\* C2 (as claimed): every navigate(to) step whose normalized target differs
\* from the current location appends exactly one entry behind the current
\* one, the new location's pathname+search is the normalized target, and
\* route is the normalized target.
C2_NavigatePushesNormalized ==
    [][\A to \in NavTargets, showLoader \in BOOLEAN :
          (navigate(to, showLoader)
              /\ parsePathFrom(to) # PathAndSearch(Location))
          => /\ idx' = idx + 1
             /\ Len(hist') = idx'
             /\ SubSeq(hist', 1, idx) = SubSeq(hist, 1, idx)
             /\ PathAndSearch(hist'[idx']) = parsePathFrom(to)
             /\ route' = parsePathFrom(to)]_vars

\* C3: a history pop (back or forward) sets route to the normalized
\* pathname+search of the location the browser moved to, and changes neither
\* the history entries nor loading nor the pending loader callbacks.
C3_PopSetsRouteOnly ==
    [][(Back \/ Forward)
          => /\ route' = parsePathFrom(PathAndSearch(hist'[idx']))
             /\ hist' = hist
             /\ loading' = loading
             /\ timers' = timers]_vars

\* C3 witness: a pop has brought the page back to a location with a query.
C3_Witness ==
    /\ lastOp.op = "pop"
    /\ Len(hist) > 1
    /\ Location = LocationOf(TermsQuery)
    /\ route = TermsQuery

\* C4: normalization is idempotent: applying parsePathFrom to its own result
\* returns that result, for every input.
C4_NormalizeIdempotent == stage = "twice" => again = output

\* C4 witness: a padded name has been normalized twice.
C4_Witness ==
    /\ stage = "twice"
    /\ input = <<"a", " ">>
    /\ again = <<"/", "a">>

\* The reference of C5: t is s without its leading and trailing white space.
IsTrimOf(t, s) ==
    \E i \in 1..(Len(s) + 1), j \in 0..Len(s) :
        /\ t = SubSeq(s, i, j)
        /\ \A k \in 1..(i - 1) : s[k] \in WhiteSpace
        /\ \A k \in (j + 1)..Len(s) : s[k] \in WhiteSpace
        /\ t # <<>> => (t[1] \notin WhiteSpace /\ t[Len(t)] \notin WhiteSpace)

\* C5: parsePathFrom is total and equals the reference: "/" for undefined or
\* the empty string; otherwise the trimmed input, unchanged when it starts
\* with "/" and with one "/" prepended when it does not.  The four examples
\* of the dev tests hold.
C5_NormalizeMatchesReference ==
    /\ stage \in {"once", "twice"} =>
          IF Falsy(input)
          THEN output = <<"/">>
          ELSE \E i \in 1..(Len(input) + 1), j \in 0..Len(input) :
                  LET t == SubSeq(input, i, j)
                  IN  /\ IsTrimOf(t, input)
                      /\ output = IF t # <<>> /\ t[1] = "/" THEN t ELSE <<"/">> \o t
    /\ parsePathFrom(Empty) = <<"/">>
    /\ parsePathFrom(About) = SlashAbout
    /\ parsePathFrom(PrivacyPrefix) = PrivacyPrefix
    /\ parsePathFrom(TermsQuery) = TermsQuery

\* C5 witness: a path with white space before it has been normalized.
C5_Witness ==
    /\ stage = "once"
    /\ input = <<" ", "/", "a">>
    /\ output = <<"/", "a">>

\* C6: route is never empty and always starts with "/".
C6_RouteStartsWithSlash == route # <<>> /\ route[1] = "/"

\* C6 witness: after two navigations a call without a target has pushed "/".
C6_Witness ==
    /\ lastOp.op = "push"
    /\ idx = 3
    /\ route = Root

\* The reference of C7: the ordered prefix table.
ViewTable ==
    << [prefix |-> AboutPrefix,   view |-> "About"],
       [prefix |-> BrandsPrefix,  view |-> "Brands"],
       [prefix |-> MediaPrefix,   view |-> "Media"],
       [prefix |-> ContactPrefix, view |-> "Contact"],
       [prefix |-> PrivacyPrefix, view |-> "Privacy"],
       [prefix |-> TermsPrefix,   view |-> "Terms"] >>

\* C7: the view rendered is that of the first table row whose prefix the
\* route starts with, and Home when no row matches.
C7_ResolveFirstPrefix ==
    stage = "once" =>
        LET hits == {i \in 1..Len(ViewTable) : StartsWith(input, ViewTable[i].prefix)}
        IN  IF hits = {}
            THEN output = "Home"
            ELSE \E i \in hits :
                    /\ \A j \in hits : i <= j
                    /\ output = ViewTable[i].view

\* C7 witness: a route with a sub-path behind /brands has resolved to Brands.
C7_Witness ==
    /\ stage = "once"
    /\ input = BrandsPrefix \o <<"/", "a", "n", "y", "t", "h", "i", "n", "g">>
    /\ output = "Brands"

\* C8 (as claimed): when a call of navigate that changes the location
\* returns, window.__router.route is the normalized target.
C8_HandleReflectsNavigate ==
    [][\A to \in NavTargets, showLoader \in BOOLEAN :
          (navigate(to, showLoader)
              /\ parsePathFrom(to) # PathAndSearch(Location)
              /\ SameOrigin(parsePathFrom(to)))
          => handleRoute' = parsePathFrom(to)]_vars

\* C9: toggleTheme flips dark and light, writes the new theme to localStorage
\* and sets data-theme to it; once a toggle has run, theme, the stored item
\* and the attribute are equal.
C9_ToggleFlipsAndMirrors ==
    [][/\ lastOp'.op = "toggle" =>
             /\ theme = "dark" => theme' = "light"
             /\ theme = "light" => theme' = "dark"
             /\ stored' = Item(theme')
             /\ attr' = theme'
       /\ toggled' => (stored' = Item(theme') /\ attr' = theme')]_vars

\* C9 witness: a toggle has brought the theme back to dark.
C9_Witness ==
    /\ lastOp.op = "toggle"
    /\ toggled
    /\ theme = "dark"
    /\ stored = Item("dark")

\* C10: with nothing stored the theme is dark; one toggle from there makes it
\* light and stores light; loading the page again keeps the theme it had.
C10_ThemeRoundTrip ==
    [][/\ stored = NoItem => theme = "dark"
       /\ (lastOp'.op = "toggle" /\ stored = NoItem)
             => (theme' = "light" /\ stored' = Item("light"))
       /\ lastOp'.op = "reload" => theme' = theme]_vars

\* C10 witness: the page was loaded again after a toggle to light.
C10_Witness ==
    /\ lastOp.op = "reload"
    /\ toggled
    /\ theme = "light"

\* C11 (as claimed): theme and the data-theme attribute are always one of
\* "dark" and "light", whatever localStorage held when the page was opened.
C11_ThemeIsDarkOrLight ==
    /\ theme \in {"dark", "light"}
    /\ attr \in {"dark", "light"}

\* C12 (as claimed): a navigate with showLoader to a differing target sets
\* loading, and once every scheduled callback has run loading is false again.
C12_LoaderClears ==
    [][/\ \A to \in NavTargets :
             (navigate(to, TRUE) /\ parsePathFrom(to) # PathAndSearch(Location))
                 => loading'
       /\ timers' = 0 => ~loading']_vars

\* C13: the loader race.  Every firing of a delayed callback sets loading to
\* false, also while the callback of a later navigation is still pending.
C13_EarlyClearHidesLoader ==
    [][lastOp'.op = "timer" => (timers' = timers - 1 /\ ~loading')]_vars

\* C13 witness: the first of two callbacks has fired; the loader is off and
\* the second navigation's callback is still pending.
C13_Witness ==
    /\ lastOp.op = "timer"
    /\ ~loading
    /\ timers = 1
    /\ idx = 3

\* C20: a navigate without showLoader changes neither loading nor the pending
\* callbacks, whether or not the target differs from the current location
\* (stated by contraposition: a step that changes either is no such call).
C20_NoLoaderNoChange ==
    [][~UNCHANGED <<loading, timers>>
          => \A to \in NavTargets : ~navigate(to, FALSE)]_vars

\* C20 witness: while a loader was showing, a navigate without showLoader
\* pushed an entry and the loader and its callback are as before.
C20_Witness ==
    /\ lastOp = Op("push", FALSE)
    /\ loading
    /\ timers = 1
    /\ idx = 3

\* C19: after a navigation that changed the route (navigate with or without
\* showLoader, or a history pop), the commit of the resulting render leaves
\* the mobile menu closed, and that render shows the new route.
C19_MenuClosedAfterNavigation ==
    [][(PublishHandle /\ handleRoute # route)
          => (~menuOpen' /\ handleRoute' = route)]_vars

\* C19 witness: the menu was open when the render after a pop to another
\* route was committed, and is closed now.
C19_Witness ==
    /\ lastOp.op = "effect-menu"
    /\ ~menuOpen
    /\ handleRoute = route
    /\ idx < Len(hist)

\* The fields the validation of C14 objects to: a blank name, a blank or
\* ill-formed e-mail address, a blank message.
Offending(f) ==
    { fld \in Fields :
        \/ Trim(f[fld]) = Empty
        \/ fld = "email" /\ ~MatchesEmailPattern(f.email) }

\* C14 (as claimed): a submit attempt issues the request if and only if no
\* field offends; otherwise it records one error per offending field (three
\* for an empty form), issues no request and leaves status and fields alone.
C14_ValidationGate ==
    [][ClickSend =>
          /\ (inflight' = inflight + 1) <=> (Offending(form) = {})
          /\ Offending(form) # {} =>
                /\ DOMAIN formErrors' = Offending(form)
                /\ inflight' = inflight
                /\ status' = status
                /\ form' = form]_vars

\* C15: a request that settles with a 2xx response sets the status to
\* success and clears the three fields, whatever they hold by then.
C15_SuccessClearsFields ==
    [][\A r \in Outcomes :
          (Respond(r) /\ Ok(r)) => (status' = "success" /\ form' = ClearedForm)]_vars

\* C15 witness: a 2xx response arrived for a submission; the status is
\* success and the form is cleared.
C15_Witness ==
    /\ lastOp.op = "response-ok"
    /\ status = "success"
    /\ form = ClearedForm
    /\ error = ""

\* C16: a request that settles with a non-2xx response or is rejected sets
\* the status to error with the one generic message and leaves the fields as
\* they were.
C16_FailureKeepsFields ==
    [][\A r \in Outcomes :
          (Respond(r) /\ ~Ok(r))
              => (status' = "error" /\ error' = GenericError /\ form' = form)]_vars

\* C16 witness: a failed submission, the fields still filled in.
C16_Witness ==
    /\ lastOp.op = "response-failed"
    /\ status = "error"
    /\ error = GenericError
    /\ validateErrors(form) = <<>>

C18_SubmissionCompletes ==
    /\ [](status \in {"idle", "submitting", "success", "error"})
    /\ [][status # "idle" => status' # "idle"]_vars
    /\ (status = "submitting") ~> (status \in {"success", "error"})

\* C18 witness: a request has just settled, and the status has left
\* submitting for success or error.
C18_Witness ==
    /\ lastOp.op \in {"response-ok", "response-failed"}
    /\ status \in {"success", "error"}
    /\ inflight = 0

\* C21: no route starts with more than one of the six prefixes, so the view
\* rendered is that of every row the route matches, in whatever order the
\* rows are tried, and it is one of the seven views.
C21_PrefixesDisjoint ==
    LET hits == {i \in 1..Len(ViewTable) : StartsWith(input, ViewTable[i].prefix)}
    IN  /\ Cardinality(hits) <= 1
        /\ stage # "input" =>
              /\ output \in {"Home"} \cup {ViewTable[i].view : i \in 1..Len(ViewTable)}
              /\ \A i \in hits : output = ViewTable[i].view
              /\ hits = {} => output = "Home"

\* C21 witness: a route that holds two prefixes, one behind the other, has
\* resolved to the view of the one it starts with.
C21_Witness ==
    /\ stage = "once"
    /\ input = AboutPrefix \o BrandsPrefix
    /\ output = "About"

\* C22: the theme switch leaves route, loading and the session history
\* alone; navigation, history pops and the loader's delayed clear leave the
\* theme, the stored theme and the document attribute alone; and route
\* changes only in a navigate or a pop step.
C22_StoresIndependent ==
    [][/\ toggleTheme => UNCHANGED <<route, loading, hist, idx>>
       /\ (ClickLink \/ ClickLogo \/ Back \/ Forward \/ ClearLoading)
             => UNCHANGED <<theme, stored, attr>>
       /\ route' # route => (ClickLink \/ ClickLogo \/ Back \/ Forward)]_vars

\* C22 witness: the theme was switched on /about while the loader of the
\* navigation that led there was still showing.
C22_Witness ==
    /\ lastOp.op = "toggle"
    /\ theme = "light"
    /\ route = SlashAbout
    /\ loading
    /\ timers = 1

\* C24 (as claimed): route is pathname+search of the current location.
C24_RouteIsLocation == route = PathAndSearch(Location)

\* C25 (as claimed): when navigate changes the route, the entry before the
\* new one reads back as the old route (what a back signal sets), the new
\* entry reads back as the new route (what a forward signal after it sets),
\* and the two entries differ in location.
C25_BackUndoesNavigate ==
    [][route' # route =>
          \A to \in NavTargets, showLoader \in BOOLEAN :
              navigate(to, showLoader) =>
                  /\ getCurrentPath(hist'[idx' - 1]) = route
                  /\ getCurrentPath(hist'[idx']) = route'
                  /\ route' = parsePathFrom(to)
                  /\ hist'[idx'] # hist'[idx' - 1]]_vars

\* C26 (as claimed): while loading is true a delayed clear is pending.
C26_LoadingHasTimer == loading => timers > 0

\* C28: the submission error message is non-empty exactly while the status
\* is error, and a submission accepted in the error state clears the message
\* and sets the status to submitting.
C28_ErrorIffStatusError ==
    [][/\ (error' # "") <=> (status' = "error")
       /\ (ClickSend /\ status = "error" /\ inflight' = inflight + 1)
             => (error' = "" /\ status' = "submitting")]_vars

\* C28 witness: after a failed submission the message is showing, the user
\* has edited the form, and it is ready to be submitted again.
C28_Witness ==
    /\ lastOp.op = "type"
    /\ status = "error"
    /\ error # ""
    /\ inflight = 0
    /\ ~SubmitDisabled
    /\ SatisfiesConstraints(form)
    /\ validateErrors(form) = <<>>

\* C27: the home link is active only on the route "/"; the link to a page
\* prefix is active exactly on the routes that start with it; at most one
\* link target is active; and the view rendered is the page of an active
\* link that is not the home link.
C27_ActiveLinkMatchesView ==
    stage = "links" =>
        LET active == {again[k] : k \in 1..Len(again)}
        IN  /\ Root \in active => input = Root
            /\ \A i \in 1..Len(ViewTable) :
                  /\ ViewTable[i].prefix \in active
                        <=> StartsWith(input, ViewTable[i].prefix)
                  /\ ViewTable[i].prefix \in active
                        => output = ViewTable[i].view
            /\ Len(again) <= 1

\* C27 witness: on a route below /brands the Brands link alone is active
\* and the Brands page is rendered.
C27_Witness ==
    /\ stage = "links"
    /\ input = BrandsPrefix \o <<"/", "x">>
    /\ again = <<BrandsPrefix>>
    /\ output = "Brands"

\* C23 (as claimed): a run of the dev tests leaves the browser location and
\* the route as they were before it.
C23_DevTestsRestore ==
    [][RunDevTests => (hist'[idx'] = hist[idx] /\ route' = route)]_vars

\* C29: at most one animation-frame callback is pending; a mousemove that
\* arrives while one is pending requests nothing; and a mousemove that
\* arrives when none is pending, as after a callback has run, requests one.
C29_OneFramePending ==
    [][/\ Len(frameQueue') <= 1
       /\ (MouseMove /\ frameQueue # <<>>)
             => UNCHANGED <<frameQueue, raf, rafIssued>>
       /\ (MouseMove /\ frameQueue = <<>>)
             => (Len(frameQueue') = 1 /\ rafIssued' = rafIssued + 1)]_vars

\* C29 witness: a callback has run and moved the element, and the mousemove
\* after it has requested the next one.
C29_Witness ==
    /\ lastOp.op = "move"
    /\ glowAt # <<>>
    /\ raf = 2
    /\ Len(frameQueue) = 1

====
